---- MODULE Spec2Model ----
(***************************************************************************)
(* MIDI merger (software/src): two UART readers, each with its own         *)
(* MidiParser, push parsed messages and running-status invalidations onto  *)
(* one CHANNEL; write_uart drains it, re-derives omitted status bytes and  *)
(* writes the merged stream.                                               *)
(*                                                                         *)
(* Bytes are the integers 0..255, written in hexadecimal as in the source. *)
(* Option<T> is a sequence of length 0 (None) or 1 (Some(x)), like the     *)
(* parser's own Vec<u8, 1>.                                                *)
(***************************************************************************)
EXTENDS Integers, Sequences, FiniteSets, TLC

\* ------------------------------------------------------------------ bounds

\* Input events (bytes, transport faults, sink write failures) the environment
\* delivers in one run with both sources active.
MaxInput == 5

\* The same, in a run where only source Zero is active.
MaxSolo == 6

\* Longest batch of fresh bytes one fill_buf() adds to the buffered bytes.
MaxBatch == 2

\* Events the readers may queue in CHANNEL in the runs that start with an empty
\* channel (the program's capacity is CHANNEL_CAPACITY).
MaxChan == 2

\* Input events in a run that starts with CHANNEL one short of its capacity.
MaxBurst == 2

\* Calls of feed_byte() and reset() in a run that drives one parser directly.
MaxFeed == 5

\* ------------------------------------------------------------- environment

UartChannel == {"Zero", "One"}

\* Bytes the sources deliver: two one-data-byte Voice statuses (Program Change,
\* Channel Pressure), a data byte, Tune Request (System Common, no data), Timing
\* Clock (realtime).
InputBytes == {\HC0, \HD0, \H3C, \HF6, \HF8}

\* Bytes fed to a parser driven directly: two data bytes, Note On (two data
\* bytes), Program Change (one), SysEx start, MTC Quarter Frame (one), the
\* undefined status 0xF4, Tune Request, SysEx end, Timing Clock, the undefined
\* realtime byte 0xF9 and System Reset.
ParserBytes ==
    {\H3C, \H40, \H90, \HC0, \HF0, \HF1, \HF4, \HF6, \HF7, \HF8, \HF9, \HFF}

\* Milliseconds since the parser's last_byte_time, as read by elapsed().
ElapsedMs == {0, 300, 301}

None == <<>>

Some(x) == <<x>>

\* ------------------------------------------------------------ midi_parser

MIDI_BYTE_TIMEOUT_MS == 300

\* MidiParser::default()
MidiParserDefault ==
    [status |-> <<>>, data |-> <<>>, expected_data_bytes |-> 2,
     state |-> "Reading", last_byte_time |-> None]

\* A clear that keeps the time of the last byte
clear_keeps_time(p) == [MidiParserDefault EXCEPT !.last_byte_time = p.last_byte_time]

\* MidiParser::clear(): *self = Self::default()
clear(p) == MidiParserDefault

\* A reset that forgets to enter Resyncing
reset_no_resync(p) == clear(p)

\* MidiParser::reset(): clear, then state = Resyncing
reset(p) == [clear(p) EXCEPT !.state = "Resyncing"]

\* Results of feed_byte: Ok(None), Ok(Some(message)), Err(error)
OkNone == [tag |-> "None", variant |-> "", bytes |-> <<>>]

OkSome(variant, bytes) == [tag |-> "Some", variant |-> variant, bytes |-> bytes]

\* A fault that aborts instead of being returned
Err_panic(error) == [tag |-> "Panic", variant |-> error, bytes |-> <<>>]

Err(error) == [tag |-> "Err", variant |-> error, bytes |-> <<>>]

\* A classification that takes every staged status for a Voice status
from_status_and_data_voice(status_byte, data_bytes) ==
    LET data == status_byte \o data_bytes
    IN  IF Len(status_byte) = 0 THEN OkSome("RunningStatus", data)
        ELSE OkSome("Voice", data)

\* MidiMessage::from_status_and_data
from_status_and_data(status_byte, data_bytes) ==
    LET data == status_byte \o data_bytes
    IN  IF Len(status_byte) = 0 THEN OkSome("RunningStatus", data)
        ELSE IF data[1] >= \HF8 /\ data[1] <= \HFF THEN OkSome("SystemRealtime", data)
        ELSE IF data[1] >= \H80 /\ data[1] <= \HEF THEN OkSome("Voice", data)
        ELSE IF (data[1] >= \HF1 /\ data[1] <= \HF3) \/ data[1] = \HF6
             THEN OkSome("SystemCommon", data)
        ELSE Err("UnknownStatus")

\* A parser that takes every status byte as defined
UndefinedStatus_none(byte) == FALSE

\* byte == 0xF4 || byte == 0xF5 || (0xF9..=0xFD).contains(&byte)
UndefinedStatus(byte) ==
    byte = \HF4 \/ byte = \HF5 \/ (byte >= \HF9 /\ byte <= \HFD)

\* (byte & 0x80) == 0x80
IsStatusByte(byte) == byte >= \H80

\* A parser that expects two data bytes after every status byte
ExpectedDataBytes_two(byte) == 2

\* The data length a status byte announces (feed_byte, "how many data bytes")
ExpectedDataBytes(byte) ==
    IF (byte >= \HC0 /\ byte <= \HCF) \/ (byte >= \HD0 /\ byte <= \HDF)
       \/ byte = \HF1 \/ byte = \HF3
    THEN 1
    ELSE IF byte = \HF6 THEN 0 ELSE 2

\* A completion that returns the message and keeps the accumulators
Complete_no_clear(p) ==
    IF Len(p.data) = p.expected_data_bytes
    THEN [parser |-> p, result |-> from_status_and_data(p.status, p.data)]
    ELSE [parser |-> p, result |-> OkNone]

\* feed_byte, the tail: "if self.data.len() == self.expected_data_bytes"
Complete(p) ==
    IF Len(p.data) = p.expected_data_bytes
    THEN LET message == from_status_and_data(p.status, p.data)
         IN  IF message.tag = "Err"
             THEN [parser |-> p, result |-> message]
             ELSE [parser |-> clear(p), result |-> message]
    ELSE [parser |-> p, result |-> OkNone]

\* feed_byte from "Update timestamp for this byte" on: the Reading state
FeedReading(p0, byte) ==
    LET p == [p0 EXCEPT !.last_byte_time = Some("now")]
    IN  IF byte = \HF0
        THEN [parser |-> [clear(p) EXCEPT !.state = "InSysEx"], result |-> OkNone]
        ELSE IF byte = \HF7
        THEN [parser |-> [clear(p) EXCEPT !.state = "Reading"], result |-> OkNone]
        ELSE IF IsStatusByte(byte)
        THEN IF UndefinedStatus(byte)
             THEN [parser |-> reset(p), result |-> Err("InvalidStatusByte")]
             ELSE IF Len(p.status) >= 1
             THEN [parser |-> reset(p), result |-> Err("DuplicateStatus")]
             ELSE Complete([p EXCEPT !.status = <<byte>>,
                                     !.expected_data_bytes = ExpectedDataBytes(byte)])
        ELSE IF Len(p.data) >= 2
             THEN [parser |-> reset(p), result |-> Err("UnexpectedDataByte")]
             ELSE Complete([p EXCEPT !.data = Append(p.data, byte)])

\* The timeout check of feed_byte: last_time.elapsed() > MIDI_BYTE_TIMEOUT_MS
TimedOut(p, elapsed) ==
    p.last_byte_time # None /\ elapsed > MIDI_BYTE_TIMEOUT_MS

\* A timeout that enters Resyncing and keeps the accumulators
Timeout_keeps(p0, elapsed) ==
    IF TimedOut(p0, elapsed) THEN [p0 EXCEPT !.state = "Resyncing"] ELSE p0

\* feed_byte, "if last_time.elapsed() > MIDI_BYTE_TIMEOUT_MS": clear, Resyncing
Timeout(p0, elapsed) ==
    IF TimedOut(p0, elapsed) THEN reset(p0) ELSE p0

\* A resync that ends on any byte
FeedResyncing_any(p, byte) == FeedReading([p EXCEPT !.state = "Reading"], byte)

\* feed_byte, "ParserState::Resyncing": data bytes and undefined status bytes are
\* discarded, a valid status byte ends the resync and is processed as in Reading
FeedResyncing(p, byte) ==
    IF IsStatusByte(byte)
    THEN IF UndefinedStatus(byte)
         THEN [parser |-> p, result |-> OkNone]
         ELSE FeedReading([p EXCEPT !.state = "Reading"], byte)
    ELSE [parser |-> p, result |-> OkNone]

\* A SysEx state that parses the bytes of the block
FeedInSysEx_parsed(p, byte) == FeedReading(p, byte)

\* feed_byte, "ParserState::InSysEx": return Ok(None)
FeedInSysEx(p, byte) == [parser |-> p, result |-> OkNone]

\* A realtime byte that is accepted like any other byte: it restarts the timeout
Realtime_timed(p0, byte) ==
    IF byte = \HF9 \/ byte = \HFD
    THEN [parser |-> reset(p0), result |-> Err("InvalidStatusByte")]
    ELSE [parser |-> [p0 EXCEPT !.last_byte_time = Some("now")],
          result |-> from_status_and_data(<<byte>>, <<>>)]

\* feed_byte, "if (0xF8..=0xFF).contains(&byte)": 0xF9 and 0xFD clear the parser
\* and enter Resyncing, the others are returned at once
Realtime(p0, byte) ==
    IF byte = \HF9 \/ byte = \HFD
    THEN [parser |-> reset(p0), result |-> Err("InvalidStatusByte")]
    ELSE [parser |-> p0, result |-> from_status_and_data(<<byte>>, <<>>)]

\* MidiParser::feed_byte(byte), `elapsed` ms after last_byte_time
feed_byte(p0, byte, elapsed) ==
    IF byte >= \HF8 /\ byte <= \HFF
    THEN Realtime(p0, byte)
    ELSE LET p == Timeout(p0, elapsed)
         IN  CASE p.state = "Resyncing" -> FeedResyncing(p, byte)
               [] p.state = "InSysEx" -> FeedInSysEx(p, byte)
               [] OTHER -> FeedReading(p, byte)

\* -------------------------------------------------------------- midi_uart

\* MidiUart::read, the "for byte in buf" loop: feeds buf[consumed+1..] until the
\* parser returns a message or a fault.  The loop has no await, so only the first
\* byte of a buffer can be `elapsed` ms late; the following ones are fed at once.
RECURSIVE FeedLoop(_, _, _, _)
FeedLoop(p, buf, consumed, elapsed) ==
    IF consumed = Len(buf)
    THEN [parser |-> p, consumed |-> consumed, result |-> OkNone]
    ELSE LET r == feed_byte(p, buf[consumed + 1], elapsed)
         IN  IF r.result.tag = "None"
             THEN FeedLoop(r.parser, buf, consumed + 1, 0)
             ELSE [parser |-> r.parser, consumed |-> consumed + 1, result |-> r.result]

\* A consume that empties the buffer, fed or not
Consume_all(buf, consumed) == <<>>

\* usart.consume(consumed): what stays buffered
Consume(buf, consumed) == SubSeq(buf, consumed + 1, Len(buf))

\* Fresh bytes the interrupt handler has added when fill_buf() returns
RECURSIVE Batches(_)
Batches(n) ==
    IF n = 0 THEN {<<>>}
    ELSE Batches(n - 1) \cup
         {Append(b, x) : b \in {c \in Batches(n - 1) : Len(c) = n - 1}, x \in InputBytes}

\* --------------------------------------------------------------------- main

\* static CHANNEL: Channel<_, ChannelMessage, 64>
CHANNEL_CAPACITY == 64

\* ChannelMessage::Midi(UartMidiMessage { message, uart_channel }); seq and epoch
\* are bookkeeping of the verification: the event's number on its source and the
\* number of resets of the source's parser (faults and timeouts) before the event
\* was produced.
Midi(variant, bytes, uart_channel, seq, epoch) ==
    [type |-> "Midi", variant |-> variant, bytes |-> bytes,
     uart_channel |-> uart_channel, seq |-> seq, epoch |-> epoch]

\* ChannelMessage::Control(ControlMessage::InvalidateRunningStatus(uart_channel))
Control(uart_channel, seq, epoch) ==
    [type |-> "Control", variant |-> "InvalidateRunningStatus", bytes |-> <<>>,
     uart_channel |-> uart_channel, seq |-> seq, epoch |-> epoch]

\* UartStatus::default()
UartStatusDefault == [uart0 |-> None, uart1 |-> None, last_tx_from |-> None]

\* The status lookup with the two channels swapped
status_byte_swapped(st, channel) == IF channel = "Zero" THEN st.uart1 ELSE st.uart0

\* write_uart: "match message.uart_channel { Zero => uart_status.uart0, One => .uart1 }"
status_byte(st, channel) == IF channel = "Zero" THEN st.uart0 ELSE st.uart1

\* An invalidation that clears the cached status and leaves last_tx_from alone
InvalidateRunningStatus_cache_only(st, channel) ==
    IF channel = "Zero" THEN [st EXCEPT !.uart0 = None] ELSE [st EXCEPT !.uart1 = None]

\* write_uart, Control arm: clear the channel's cached status, and last_tx_from
\* if it was this channel
InvalidateRunningStatus(st, channel) ==
    LET cleared == IF channel = "Zero" THEN [st EXCEPT !.uart0 = None]
                   ELSE [st EXCEPT !.uart1 = None]
    IN  IF cleared.last_tx_from = Some(channel)
        THEN [cleared EXCEPT !.last_tx_from = None]
        ELSE cleared

\* A Voice arm that caches every status as channel Zero's
SetStatus_uart0(st, channel, data) == [st EXCEPT !.uart0 = Some(data[1])]

\* write_uart, Voice arm: "uart_status.uartN = Some(data[0])"
SetStatus(st, channel, data) ==
    IF channel = "Zero" THEN [st EXCEPT !.uart0 = Some(data[1])]
    ELSE [st EXCEPT !.uart1 = Some(data[1])]

\* A RunningStatus arm that always prepends the status
need_status_always(st, channel) == TRUE

\* write_uart, RunningStatus arm:
\* last_tx_from.map(|prev| prev != message.uart_channel).unwrap_or(true)
need_status(st, channel) ==
    IF st.last_tx_from = None THEN TRUE ELSE st.last_tx_from # Some(channel)

\* write_uart, after the inner match: "uart_status.last_tx_from = Some(uart_channel)"
SetLastTx(st, channel) == [st EXCEPT !.last_tx_from = Some(channel)]

\* A sink that puts the bytes in front of the ones written before
SinkWrite_front(stream, bytes) == bytes \o stream

\* usart.write(&bytes) succeeding: the bytes are appended to the output
SinkWrite(stream, bytes) == stream \o bytes

\* -------------------------------------------------------------------- state

VARIABLES
    parser,       \* [UartChannel -> MidiParser]: each reader's MidiUart.parser
    rx,           \* [UartChannel -> Seq(byte)]: bytes buffered in BufferedUartRx, not consumed
    pending,      \* [UartChannel -> Option<ChannelMessage>]: the event a reader is sending
    chan,         \* CHANNEL: the queued ChannelMessages, oldest first
    uart_status,  \* write_uart's UartStatus
    out,          \* every byte written to the output UART, in order
    budget,       \* input events the environment may still deliver
    produced,     \* [UartChannel -> Nat]: events the reader has produced
    faults,       \* [UartChannel -> faults reported to the reader, by kind]
    timeouts,     \* [UartChannel -> Nat]: inter-byte timeouts that reset the reader's parser
    seen,         \* [UartChannel -> what write_uart has dequeued from the source]
    handled,      \* Option<ChannelMessage>: the message write_uart dequeued last
    sink_failed,  \* whether a write to the output has failed
    log           \* the calls made on a parser driven directly, with their results

vars == <<parser, rx, pending, chan, uart_status, out, budget, produced, faults,
          timeouts, seen, handled, sink_failed, log>>

readerVars == <<parser, rx, pending, produced, faults, timeouts>>

writerVars == <<uart_status, out, seen, handled, sink_failed>>

\* seq: number of the last event dequeued from the source; voice, epoch: status byte
\* and epoch of the last Voice message dequeued from it; invalidated: an
\* InvalidateRunningStatus was dequeued after that Voice message.
SeenDefault == [seq |-> 0, voice |-> None, epoch |-> None, invalidated |-> FALSE]

\* Resets of the parser of source s so far
Epoch(s) == faults[s].uart + faults[s].message + timeouts[s]

\* The tasks as spawned by main: MidiUart::new, UartStatus::default, empty CHANNEL
InitProgram ==
    /\ parser = [s \in UartChannel |-> MidiParserDefault]
    /\ rx = [s \in UartChannel |-> <<>>]
    /\ pending = [s \in UartChannel |-> None]
    /\ chan = <<>>
    /\ uart_status = UartStatusDefault
    /\ out = <<>>
    /\ produced = [s \in UartChannel |-> 0]
    /\ faults = [s \in UartChannel |-> [uart |-> 0, message |-> 0]]
    /\ timeouts = [s \in UartChannel |-> 0]
    /\ seen = [s \in UartChannel |-> SeenDefault]
    /\ handled = None
    /\ sink_failed = FALSE
    /\ log = <<>>

Init == InitProgram /\ budget = MaxInput

InitSolo == InitProgram /\ budget = MaxSolo

\* ----------------------------------------------------------- read_from_uart

\* elapsed() is read only when the parser holds a last_byte_time
Elapsed(p) == IF p.last_byte_time = None THEN {0} ELSE ElapsedMs

\* Whether feeding `byte` finds the inter-byte timeout exceeded and resets the parser
TimeoutReset(p, byte, elapsed) ==
    IF ~(byte >= \HF8 /\ byte <= \HFF) /\ TimedOut(p, elapsed) THEN 1 ELSE 0

\* One pass of MidiUart::read's loop on reader s: fill_buf() returns the buffered
\* bytes with a fresh batch, the bytes are fed to the parser (result r), the fed
\* ones are consumed.
Fill(s, batch, r) ==
    /\ pending[s] = None
    /\ rx[s] \o batch # <<>>
    /\ Len(batch) <= budget
    /\ budget' = budget - Len(batch)
    /\ rx' = [rx EXCEPT ![s] = Consume(rx[s] \o batch, r.consumed)]
    /\ UNCHANGED <<chan, writerVars, log>>

\* read() loops: the buffered bytes did not complete a message
ReadMore(s) ==
    \E batch \in Batches(MaxBatch), elapsed \in Elapsed(parser[s]) :
        LET r == FeedLoop(parser[s], rx[s] \o batch, 0, elapsed)
        IN  /\ Fill(s, batch, r)
            /\ r.result.tag = "None"
            /\ parser' = [parser EXCEPT ![s] = r.parser]
            /\ timeouts' = [timeouts EXCEPT ![s] =
                                @ + TimeoutReset(parser[s], (rx[s] \o batch)[1], elapsed)]
            /\ UNCHANGED <<pending, produced, faults>>

\* read() returns Ok(message): read_from_uart sends ChannelMessage::Midi(message)
ReadOk(s) ==
    \E batch \in Batches(MaxBatch), elapsed \in Elapsed(parser[s]) :
        LET r == FeedLoop(parser[s], rx[s] \o batch, 0, elapsed)
            late == TimeoutReset(parser[s], (rx[s] \o batch)[1], elapsed)
        IN  /\ Fill(s, batch, r)
            /\ r.result.tag = "Some"
            /\ parser' = [parser EXCEPT ![s] = r.parser]
            /\ timeouts' = [timeouts EXCEPT ![s] = @ + late]
            /\ produced' = [produced EXCEPT ![s] = @ + 1]
            /\ pending' = [pending EXCEPT ![s] =
                   Some(Midi(r.result.variant, r.result.bytes, s, produced[s] + 1,
                             Epoch(s) + late))]
            /\ UNCHANGED faults

\* read() returns Err(UartMidiError::MessageError(err)): midi_uart.reset_parser(),
\* then the InvalidateRunningStatus is sent
ReadMessageError(s) ==
    \E batch \in Batches(MaxBatch), elapsed \in Elapsed(parser[s]) :
        LET r == FeedLoop(parser[s], rx[s] \o batch, 0, elapsed)
            late == TimeoutReset(parser[s], (rx[s] \o batch)[1], elapsed)
        IN  /\ Fill(s, batch, r)
            /\ r.result.tag = "Err"
            /\ parser' = [parser EXCEPT ![s] = reset(r.parser)]
            /\ timeouts' = [timeouts EXCEPT ![s] = @ + late]
            /\ faults' = [faults EXCEPT ![s].message = @ + 1]
            /\ produced' = [produced EXCEPT ![s] = @ + 1]
            /\ pending' = [pending EXCEPT ![s] =
                   Some(Control(s, produced[s] + 1, Epoch(s) + late + 1))]

\* fill_buf() fails: read() returns Err(UartMidiError::UartError(_)); the parser is
\* reset and the InvalidateRunningStatus is sent.  The buffered bytes stay.
ReadUartError(s) ==
    /\ pending[s] = None
    /\ budget > 0
    /\ budget' = budget - 1
    /\ parser' = [parser EXCEPT ![s] = reset(parser[s])]
    /\ faults' = [faults EXCEPT ![s].uart = @ + 1]
    /\ produced' = [produced EXCEPT ![s] = @ + 1]
    /\ pending' = [pending EXCEPT ![s] = Some(Control(s, produced[s] + 1, Epoch(s) + 1))]
    /\ UNCHANGED <<rx, timeouts, chan, writerVars, log>>

\* A channel that hands out the newest message first
ChannelSend_lifo(queue, message) == <<message>> \o queue

\* Channel::send: the message joins the queue behind the queued ones
ChannelSend(queue, message) == Append(queue, message)

\* A channel that always takes one more message
HasRoom_unbounded(queue) == TRUE

\* Channel::send suspends the sender while the channel holds its capacity
HasRoom(queue) == Len(queue) < CHANNEL_CAPACITY

\* CHANNEL.send(..).await completes once the channel has room
Send(s) ==
    /\ pending[s] # None
    /\ HasRoom(chan)
    /\ chan' = ChannelSend(chan, pending[s][1])
    /\ pending' = [pending EXCEPT ![s] = None]
    /\ UNCHANGED <<parser, rx, produced, faults, timeouts, budget, writerVars, log>>

\* ------------------------------------------------------------- MidiParser

\* One entry of the log: a feed_byte(byte) call that found the inter-byte timeout
\* exceeded or not (late) and returned `result`, or a reset() call
Fed(byte, late, result) == [op |-> "feed_byte", byte |-> byte, late |-> late, result |-> result]

Reset == [op |-> "reset", byte |-> 0, late |-> FALSE, result |-> OkNone]

\* parser.feed_byte(byte) on the parser of s
FeedByte(s) ==
    \E byte \in ParserBytes, elapsed \in Elapsed(parser[s]) :
        LET r == feed_byte(parser[s], byte, elapsed)
        IN  /\ budget > 0
            /\ budget' = budget - 1
            /\ parser' = [parser EXCEPT ![s] = r.parser]
            /\ log' = Append(log, Fed(byte, TimeoutReset(parser[s], byte, elapsed) = 1,
                                      r.result))
            /\ UNCHANGED <<rx, pending, produced, faults, timeouts, chan, writerVars>>

\* parser.reset() on the parser of s
ResetParser(s) ==
    /\ budget > 0
    /\ budget' = budget - 1
    /\ parser' = [parser EXCEPT ![s] = reset(parser[s])]
    /\ log' = Append(log, Reset)
    /\ UNCHANGED <<rx, pending, produced, faults, timeouts, chan, writerVars>>

\* --------------------------------------------------------------- write_uart

\* Channel::receive: the oldest queued message
ChannelReceive(queue) == Head(queue)

\* The message receive() returns, if the channel holds one
Front(queue) == IF queue = <<>> THEN {} ELSE {ChannelReceive(queue)}

\* What write_uart has dequeued from each source, after dequeuing `message`
Dequeued(message) ==
    LET s == message.uart_channel
    IN  [seen EXCEPT ![s] =
            IF message.type = "Control"
            THEN [@ EXCEPT !.seq = message.seq, !.invalidated = TRUE]
            ELSE IF message.variant = "Voice"
            THEN [seq |-> message.seq, voice |-> Some(message.bytes[1]),
                  epoch |-> Some(message.epoch), invalidated |-> FALSE]
            ELSE [@ EXCEPT !.seq = message.seq]]

\* CHANNEL.receive().await returns a message of the given kind
Receive(message, type, variants) ==
    /\ message.type = type
    /\ message.variant \in variants
    /\ chan' = Tail(chan)
    /\ seen' = Dequeued(message)
    /\ handled' = Some(message)
    /\ UNCHANGED <<readerVars, log>>

\* A write to the output succeeds or fails; a failure is an input event
Sink(ok) ==
    /\ ok \/ budget > 0
    /\ budget' = IF ok THEN budget ELSE budget - 1
    /\ sink_failed' = (sink_failed \/ ~ok)

\* ChannelMessage::Control(InvalidateRunningStatus(channel))
HandleInvalidate ==
    \E message \in Front(chan) :
        /\ Receive(message, "Control", {"InvalidateRunningStatus"})
        /\ uart_status' = InvalidateRunningStatus(uart_status, message.uart_channel)
        /\ UNCHANGED <<out, budget, sink_failed>>

\* MidiMessage::Voice(data): the status is cached, then the message is written; a
\* failed write skips the last_tx_from update ("continue")
HandleVoice ==
    \E message \in Front(chan), ok \in BOOLEAN :
        LET cached == SetStatus(uart_status, message.uart_channel, message.bytes)
        IN  /\ Receive(message, "Midi", {"Voice"})
            /\ Sink(ok)
            /\ IF ok
               THEN /\ out' = SinkWrite(out, message.bytes)
                    /\ uart_status' = SetLastTx(cached, message.uart_channel)
               ELSE /\ out' = out
                    /\ uart_status' = cached

\* MidiMessage::SystemCommon(data) | MidiMessage::SystemRealtime(data)
HandleSystem ==
    \E message \in Front(chan), ok \in BOOLEAN :
        /\ Receive(message, "Midi", {"SystemCommon", "SystemRealtime"})
        /\ Sink(ok)
        /\ IF ok
           THEN /\ out' = SinkWrite(out, message.bytes)
                /\ uart_status' = SetLastTx(uart_status, message.uart_channel)
           ELSE UNCHANGED <<out, uart_status>>

\* MidiMessage::RunningStatus(data); `failed` is the write that fails, if any
HandleRunningStatus ==
    \E message \in Front(chan), failed \in {"none", "status", "data"} :
        LET s == message.uart_channel
            prefix == status_byte(uart_status, s)
        IN  /\ Receive(message, "Midi", {"RunningStatus"})
            /\ IF need_status(uart_status, s) /\ prefix = None
               THEN \* running status without previous voice message: dropped
                    /\ failed = "none"
                    /\ UNCHANGED <<out, uart_status, budget, sink_failed>>
               ELSE /\ failed = "status" => need_status(uart_status, s)
                    /\ Sink(failed = "none")
                    /\ out' = CASE failed = "status" -> out
                                [] failed = "data" ->
                                     IF need_status(uart_status, s)
                                     THEN SinkWrite(out, prefix) ELSE out
                                [] OTHER ->
                                     IF need_status(uart_status, s)
                                     THEN SinkWrite(SinkWrite(out, prefix), message.bytes)
                                     ELSE SinkWrite(out, message.bytes)
                    /\ uart_status' = IF failed = "none"
                                      THEN SetLastTx(uart_status, s)
                                      ELSE uart_status

\* ------------------------------------------------------------ specification

WriteUart ==
    \/ HandleInvalidate
    \/ HandleVoice
    \/ HandleSystem
    \/ HandleRunningStatus

\* read_uart0, read_uart1 and write_uart, as scheduled by the executor
Next ==
    \/ \E s \in UartChannel : ReadMore(s)
    \/ \E s \in UartChannel : ReadOk(s)
    \/ \E s \in UartChannel : ReadMessageError(s)
    \/ \E s \in UartChannel : ReadUartError(s)
    \/ \E s \in UartChannel : Len(chan) < MaxChan /\ Send(s)
    \/ WriteUart

Spec == Init /\ [][Next]_vars

\* The same tasks while source One stays silent
NextSolo ==
    \/ ReadMore("Zero")
    \/ ReadOk("Zero")
    \/ ReadMessageError("Zero")
    \/ ReadUartError("Zero")
    \/ Len(chan) < MaxChan /\ Send("Zero")
    \/ WriteUart

SpecSolo == InitSolo /\ [][NextSolo]_vars

\* The tasks once source Zero has queued Timing Clock messages up to one short of
\* the channel's capacity while write_uart was busy writing
InitBurst ==
    /\ parser = [s \in UartChannel |-> MidiParserDefault]
    /\ rx = [s \in UartChannel |-> <<>>]
    /\ pending = [s \in UartChannel |-> None]
    /\ chan = [i \in 1 .. CHANNEL_CAPACITY - 1 |->
                  Midi("SystemRealtime", <<\HF8>>, "Zero", i, 0)]
    /\ uart_status = UartStatusDefault
    /\ out = <<>>
    /\ produced = [s \in UartChannel |-> Len(SelectSeq(chan, LAMBDA m : m.uart_channel = s))]
    /\ faults = [s \in UartChannel |-> [uart |-> 0, message |-> 0]]
    /\ timeouts = [s \in UartChannel |-> 0]
    /\ seen = [s \in UartChannel |-> SeenDefault]
    /\ handled = None
    /\ sink_failed = FALSE
    /\ log = <<>>
    /\ budget = MaxBurst

\* read_uart0, read_uart1 and write_uart with the channel used up to its capacity
NextBurst ==
    \/ \E s \in UartChannel : ReadMore(s)
    \/ \E s \in UartChannel : ReadOk(s)
    \/ \E s \in UartChannel : ReadMessageError(s)
    \/ \E s \in UartChannel : ReadUartError(s)
    \/ \E s \in UartChannel : Send(s)
    \/ WriteUart

\* A MidiParser::default() driven byte by byte
InitParser == InitProgram /\ budget = MaxFeed

NextParser ==
    \/ FeedByte("Zero")
    \/ ResetParser("Zero")

SpecParser == InitParser /\ [][NextParser]_vars

\* The executor polls write_uart whenever CHANNEL holds a message
SpecBurst == InitBurst /\ [][NextBurst]_vars /\ WF_vars(WriteUart)

\* ------------------------------------------------------------------ claims

\* write_uart dequeues a message of one of the given kinds in this step
Handles(type, variants) ==
    /\ chan # <<>>
    /\ Len(chan') = Len(chan) - 1
    /\ Head(chan).type = type
    /\ Head(chan).variant \in variants

\* The step appends bytes to the output that end with the message's own bytes
WroteData(message) ==
    /\ Len(out') - Len(out) >= Len(message.bytes)
    /\ SubSeq(out', Len(out') - Len(message.bytes) + 1, Len(out')) = message.bytes

\* No write to the output fails in this step
WritesSucceed == budget' = budget

\* The most recent Voice status byte (0x80..0xEF) of a byte stream
RECURSIVE LastVoiceStatus(_)
LastVoiceStatus(stream) ==
    IF stream = <<>> THEN None
    ELSE IF stream[Len(stream)] >= \H80 /\ stream[Len(stream)] <= \HEF
         THEN Some(stream[Len(stream)])
         ELSE LastVoiceStatus(SubSeq(stream, 1, Len(stream) - 1))

\* The cached status of a source, read from the UartStatus fields
CacheOf(st, s) == IF s = "Zero" THEN st.uart0 ELSE st.uart1

Other(s) == IF s = "Zero" THEN "One" ELSE "Zero"

\* C1: with no sink write failure, whenever write_uart writes the data bytes of a
\* RunningStatus message from source S, the most recent Voice status byte in the
\* output before those data bytes is the status byte of the most recent Voice
\* message received from S.
C1_RunningStatusValid ==
    [][(Handles("Midi", {"RunningStatus"}) /\ ~sink_failed' /\ WroteData(Head(chan)))
        => LET m == Head(chan)
               before == SubSeq(out', 1, Len(out') - Len(m.bytes))
           IN  /\ seen'[m.uart_channel].voice # None
               /\ LastVoiceStatus(before) = seen'[m.uart_channel].voice]_vars

\* The numbers of the events of source s still on their way to write_uart: those
\* queued in CHANNEL, oldest first, then the one its reader is sending
InFlight(s) ==
    LET queued == SelectSeq(chan, LAMBDA m : m.uart_channel = s)
    IN  [i \in 1 .. Len(queued) |-> queued[i].seq]
        \o (IF pending[s] = None THEN <<>> ELSE <<pending[s][1].seq>>)

\* C2: for each source, write_uart dequeues the events (Midi messages and
\* InvalidateRunningStatus controls) in exactly the order the reader produced
\* them: in every state the events of the source not yet dequeued are on their way
\* in production order, right after the last one dequeued, none lost or duplicated.
C2_SourceOrder ==
    \A s \in UartChannel :
        InFlight(s) = [i \in 1 .. (produced[s] - seen[s].seq) |-> seen[s].seq + i]

\* C2 witness: from source Zero a message, then an Invalidate, then a message have
\* been dequeued, interleaved with an event of source One.
C2_Witness ==
    /\ seen["Zero"].seq >= 3
    /\ seen["Zero"].invalidated
    /\ handled # None
    /\ handled[1].uart_channel = "Zero"
    /\ handled[1].type = "Midi"
    /\ seen["One"].seq >= 1

\* C3: after a reset of the parser of source S (protocol fault, transport fault or
\* inter-byte timeout), the status of a Voice message S sent before the reset is
\* neither written as a prefix nor relied on for a RunningStatus message S sends
\* after the reset.
C3_NoStaleStatus ==
    [][(Handles("Midi", {"RunningStatus"}) /\ WroteData(Head(chan)))
        => LET m == Head(chan)
               s == m.uart_channel
               relied == IF Len(out') - Len(out) > Len(m.bytes)
                         THEN <<out'[Len(out) + 1]>>
                         ELSE LastVoiceStatus(out)
           IN  ~(/\ seen[s].epoch # None
                 /\ seen[s].epoch[1] < m.epoch
                 /\ relied = seen[s].voice)]_vars

\* C4: after write_uart has processed Invalidate(S), no data bytes of a
\* RunningStatus message from S are written until a Voice message from S has been
\* processed.
C4_VoiceAfterInvalidate ==
    [][(Handles("Midi", {"RunningStatus"}) /\ WroteData(Head(chan)))
        => ~seen[Head(chan).uart_channel].invalidated]_vars

\* C5: a RunningStatus message from S with the writes succeeding: if last_tx_from
\* is unset or another source and S has a cached status, exactly the cached status
\* then the data bytes are written; if last_tx_from is S, exactly the data bytes;
\* in both cases last_tx_from becomes S and the caches are unchanged.
C5_RunningStatusWrite ==
    [][(Handles("Midi", {"RunningStatus"}) /\ WritesSucceed)
        => LET m == Head(chan)
               s == m.uart_channel
               cache == CacheOf(uart_status, s)
           IN  /\ (uart_status.last_tx_from # Some(s) /\ cache # None)
                    => /\ out' = out \o cache \o m.bytes
                       /\ uart_status' = [uart_status EXCEPT !.last_tx_from = Some(s)]
               /\ uart_status.last_tx_from = Some(s)
                    => /\ out' = out \o m.bytes
                       /\ uart_status' = uart_status]_vars

\* C5 witness: a RunningStatus message of source Zero has been written behind a
\* realtime byte of source One, with Zero's cached status injected before its data.
C5_Witness ==
    /\ handled # None
    /\ handled[1].variant = "RunningStatus"
    /\ handled[1].uart_channel = "Zero"
    /\ ~sink_failed
    /\ out = <<\HC0, \H3C, \HF8, \HC0>> \o handled[1].bytes
    /\ uart_status.last_tx_from = Some("Zero")

\* C6: a RunningStatus message from S while last_tx_from is unset or another
\* source and S has no cached status is dropped: nothing is written, and the
\* caches and last_tx_from stay as they were.
C6_UnderflowDropped ==
    [][Handles("Midi", {"RunningStatus"})
        => LET s == Head(chan).uart_channel
           IN  (uart_status.last_tx_from # Some(s) /\ CacheOf(uart_status, s) = None)
                 => (out' = out /\ uart_status' = uart_status)]_vars

\* C6 witness: after a Voice message of source Zero, a RunningStatus message of
\* source One, which never sent a Voice message, has been dequeued and dropped.
C6_Witness ==
    /\ handled # None
    /\ handled[1].variant = "RunningStatus"
    /\ handled[1].uart_channel = "One"
    /\ ~sink_failed
    /\ out = <<\HC0, \H3C>>
    /\ uart_status = [uart0 |-> Some(\HC0), uart1 |-> None, last_tx_from |-> Some("Zero")]

\* C7: a SystemCommon or SystemRealtime message is written verbatim and leaves
\* both cached statuses and last_tx_from as they were.
C7_SystemWriteThrough ==
    [][Handles("Midi", {"SystemCommon", "SystemRealtime"})
        => /\ WritesSucceed => out' = out \o Head(chan).bytes
           /\ uart_status' = uart_status]_vars

\* C8: a Voice message from S with a successful write sets S's cached status to
\* the message's first byte, writes the bytes verbatim, sets last_tx_from to S and
\* leaves the other source's cached status unchanged.
C8_VoiceWrite ==
    [][(Handles("Midi", {"Voice"}) /\ WritesSucceed)
        => LET m == Head(chan)
               s == m.uart_channel
           IN  /\ out' = out \o m.bytes
               /\ CacheOf(uart_status', s) = Some(m.bytes[1])
               /\ CacheOf(uart_status', Other(s)) = CacheOf(uart_status, Other(s))
               /\ uart_status'.last_tx_from = Some(s)]_vars

\* C8 witness: a Voice message of source One has been written after one of source
\* Zero with another status; each source has its own status cached.
C8_Witness ==
    /\ handled # None
    /\ handled[1].variant = "Voice"
    /\ handled[1].uart_channel = "One"
    /\ ~sink_failed
    /\ out = <<\HC0, \H3C, \HD0, \H3C>>
    /\ uart_status = [uart0 |-> Some(\HC0), uart1 |-> Some(\HD0),
                      last_tx_from |-> Some("One")]

\* C9: Invalidate(S) clears S's cached status, clears last_tx_from iff it was S,
\* writes nothing, leaves the other source's cached status unchanged, and is
\* idempotent: a second Invalidate(S) would leave the merge state as it is.
C9_Invalidate ==
    [][Handles("Control", {"InvalidateRunningStatus"})
        => LET s == Head(chan).uart_channel
           IN  /\ out' = out
               /\ CacheOf(uart_status', s) = None
               /\ CacheOf(uart_status', Other(s)) = CacheOf(uart_status, Other(s))
               /\ uart_status'.last_tx_from =
                      IF uart_status.last_tx_from = Some(s) THEN None
                      ELSE uart_status.last_tx_from
               /\ InvalidateRunningStatus(uart_status', s) = uart_status']_vars

\* C9 witness: Invalidate(Zero) has been processed after Voice messages of both
\* sources, One's last; One's cached status and last_tx_from = One are kept.
C9_Witness ==
    /\ handled # None
    /\ handled[1].type = "Control"
    /\ handled[1].uart_channel = "Zero"
    /\ seen["Zero"].voice # None
    /\ uart_status = [uart0 |-> None, uart1 |-> Some(\HD0), last_tx_from |-> Some("One")]

\* A parser in Resyncing with empty accumulators
Resynced(p) ==
    /\ p.state = "Resyncing"
    /\ p.status = <<>>
    /\ p.data = <<>>
    /\ p.last_byte_time = None

Faults(f) == f.uart + f.message

\* C10: for every transport fault and every protocol fault reported to the reader
\* of source S, the reader leaves its parser in Resyncing with empty accumulators
\* and produces exactly one event, the Invalidate(S), which it sends before it
\* reads on; an Invalidate(S) is produced for a fault only.
C10_FaultInvalidates ==
    [][\A s \in UartChannel :
        /\ faults'[s] # faults[s]
             => /\ Faults(faults'[s]) = Faults(faults[s]) + 1
                /\ Resynced(parser'[s])
                /\ produced'[s] = produced[s] + 1
                /\ pending[s] = None
                /\ pending'[s] = Some(Control(s, produced'[s], pending'[s][1].epoch))
                /\ chan' = chan
        /\ (pending'[s] # pending[s] /\ pending'[s] # None /\ faults'[s] = faults[s])
             => pending'[s][1].type = "Midi"
        /\ (pending[s] # None /\ pending'[s] # pending[s])
             => /\ pending'[s] = None
                /\ chan' = Append(chan, pending[s][1])
                /\ parser'[s] = parser[s]]_vars

\* C10 witness: source Zero had a transport fault and a protocol fault; both
\* Invalidates were sent and dequeued, and the reader is reading again, its
\* parser in Resyncing.
C10_Witness ==
    /\ faults["Zero"] = [uart |-> 1, message |-> 1]
    /\ produced["Zero"] = 2
    /\ seen["Zero"].seq = 2
    /\ pending["Zero"] = None
    /\ Resynced(parser["Zero"])

\* Events of source s queued when the burst begins
Backlog(s) == IF s = "Zero" THEN CHANNEL_CAPACITY - 1 ELSE 0

\* The numbers of the events of source s queued in CHANNEL
Queued(s) == {chan[i].seq : i \in {j \in 1 .. Len(chan) : chan[j].uart_channel = s}}

\* C11: CHANNEL never holds more than its capacity of 64 and never drops or
\* reorders an event: every step leaves it as it is, removes its oldest event
\* (which write_uart then handles) or appends the event a reader is sending; no
\* reader completes a send while the channel is full, write_uart does nothing
\* while it is empty, a task that can proceed is never blocked, and with
\* write_uart scheduled fairly every queued event is eventually dequeued.
C11_Channel ==
    /\ [](Len(chan) <= CHANNEL_CAPACITY)
    /\ [](chan # <<>> => ENABLED WriteUart)
    /\ [](\A s \in UartChannel :
            (pending[s] # None /\ Len(chan) < CHANNEL_CAPACITY) => ENABLED Send(s))
    /\ [][\/ chan' = chan /\ writerVars' = writerVars
          \/ /\ chan # <<>>
             /\ chan' = Tail(chan)
             /\ handled' = Some(Head(chan))
             /\ pending' = pending
          \/ \E s \in UartChannel :
                /\ pending[s] # None
                /\ Len(chan) < CHANNEL_CAPACITY
                /\ chan' = Append(chan, pending[s][1])
                /\ pending' = [pending EXCEPT ![s] = None]
                /\ writerVars' = writerVars]_vars
    /\ \A s \in UartChannel : \A n \in 1 .. Backlog(s) + MaxBurst :
          (n \in Queued(s)) ~> (/\ handled # None
                                 /\ handled[1].uart_channel = s
                                 /\ handled[1].seq = n)

\* C11 witness: the channel holds 64 events, the reader of source One is suspended
\* in send() with a further one, and write_uart has dequeued nothing yet.
C11_Witness ==
    /\ Len(chan) = CHANNEL_CAPACITY
    /\ pending["One"] # None
    /\ handled = None

\* A write to the output fails in this step
WriteFails == budget' = budget - 1

\* C12: when a write to the output fails while write_uart handles a Voice,
\* SystemCommon, SystemRealtime or RunningStatus message, both cached statuses and
\* last_tx_from are what they were before the message was dequeued.
C12_SinkFailureKeepsState ==
    [][(/\ Handles("Midi", {"Voice", "SystemCommon", "SystemRealtime", "RunningStatus"})
        /\ WriteFails)
        => uart_status' = uart_status]_vars

\* The bytes 0xF8..0xFF that are defined realtime messages
DefinedRealtime == {\HF8, \HFA, \HFB, \HFC, \HFE, \HFF}

\* The last call logged by this step, if the step is a call on the parser
Called == IF log' # log THEN {log'[Len(log')]} ELSE {}

\* What the logged calls return when they are made again, in order, on a parser
\* that starts as p
RECURSIVE Replay(_, _)
Replay(p, calls) ==
    IF calls = <<>> THEN <<>>
    ELSE LET c == Head(calls)
             r == IF c.op = "reset" THEN [parser |-> reset(p), result |-> OkNone]
                  ELSE feed_byte(p, c.byte, IF c.late THEN MIDI_BYTE_TIMEOUT_MS + 1 ELSE 0)
         IN  <<r.result>> \o Replay(r.parser, Tail(calls))

NotRealtime(c) == c.op = "reset" \/ c.byte \notin DefinedRealtime

\* C13: feed_byte with a defined realtime byte (0xF8, 0xFA, 0xFB, 0xFC, 0xFE, 0xFF)
\* returns the one-byte SystemRealtime message at once and leaves the parser
\* (state, status, data, expected length, last-byte time) unchanged, whatever its
\* state; so the other calls return what they return with the realtime bytes
\* left out of the stream.
C13_RealtimeTransparent ==
    /\ [][\A c \in Called :
            (c.op = "feed_byte" /\ c.byte \in DefinedRealtime)
              => /\ c.result = OkSome("SystemRealtime", <<c.byte>>)
                 /\ parser' = parser]_vars
    /\ [](LET others == SelectSeq(log, NotRealtime)
          IN  [i \in 1 .. Len(others) |-> others[i].result]
                = Replay(MidiParserDefault, others))

\* C13 witness: Timing Clock arrived between the data bytes of a Note On and
\* System Reset before them; the Note On then completed with its own three bytes.
C13_Witness ==
    /\ Len(log) = 5
    /\ [i \in 1 .. 5 |-> log[i].byte] = <<\H90, \HFF, \H3C, \HF8, \H40>>
    /\ log[4].result = OkSome("SystemRealtime", <<\HF8>>)
    /\ log[5].result = OkSome("Voice", <<\H90, \H3C, \H40>>)

\* C14: in InSysEx, feed_byte(0xF7) clears the parser and returns it to Reading
\* (so the message after a block 0xF0 ... 0xF7 is parsed); every other byte below
\* 0xF8 is discarded and leaves the parser in InSysEx.
C14_SysExEnds ==
    [][\A c \in Called :
        (c.op = "feed_byte" /\ parser["Zero"].state = "InSysEx" /\ c.byte < \HF8)
          => /\ c.result = OkNone
             /\ parser'["Zero"] = IF c.byte = \HF7 THEN MidiParserDefault
                                  ELSE parser["Zero"]]_vars

\* A status byte that starts a Voice or SystemCommon message
LegitimateStatus(byte) ==
    (byte >= \H80 /\ byte <= \HEF) \/ (byte >= \HF1 /\ byte <= \HF3) \/ byte = \HF6

\* The data length the protocol gives a status byte
DataLen(byte) ==
    IF (byte >= \HC0 /\ byte <= \HDF) \/ byte = \HF1 \/ byte = \HF3 THEN 1
    ELSE IF byte = \HF6 THEN 0 ELSE 2

\* The message a status byte and its data bytes stand for
Classified(bytes) ==
    OkSome(IF bytes[1] <= \HEF THEN "Voice" ELSE "SystemCommon", bytes)

\* The call is a fault: reset(), a timeout, or a fault value returned
IsFault(c) == c.op = "reset" \/ c.late \/ c.result.tag = "Err"

\* The call feeds a data byte in time
FeedsData(c) == c.op = "feed_byte" /\ ~c.late /\ c.byte < \H80

\* The logged calls from..to, fed in time, are a legitimate status byte followed
\* by exactly its data bytes
IsGroup(from, to) ==
    /\ log[from].op = "feed_byte"
    /\ ~log[from].late
    /\ LegitimateStatus(log[from].byte)
    /\ to = from + DataLen(log[from].byte)
    /\ \A i \in from + 1 .. to : FeedsData(log[i])

\* C15: after any fault (protocol fault, reset() or timeout) and any bytes fed
\* since, a legitimate status byte followed by exactly its expected data bytes
\* yields exactly one message: nothing is returned before the last byte, and the
\* last byte returns the correctly classified message made of these bytes.
C15_ResyncConverges ==
    \A from \in 1 .. Len(log) :
        (/\ IsGroup(from, Len(log))
         /\ \E j \in 1 .. from - 1 : IsFault(log[j]))
          => /\ \A i \in from .. Len(log) - 1 : log[i].result = OkNone
             /\ log[Len(log)].result =
                    Classified([i \in 1 .. Len(log) - from + 1 |-> log[from + i - 1].byte])

\* The stream from position i on starts with n data bytes
DataRun(stream, i, n) ==
    /\ i + n - 1 <= Len(stream)
    /\ \A j \in i .. i + n - 1 : stream[j] < \H80

\* The messages a byte stream is the concatenation of: Voice and SystemCommon
\* messages with their data bytes, one-byte SystemRealtime messages, and groups of
\* data bytes as long as the data length of the preceding Voice status (voice);
\* a stream that is no such concatenation ends in Err("Invalid").
RECURSIVE Messages(_, _)
Messages(stream, voice) ==
    IF stream = <<>> THEN <<>>
    ELSE LET b == Head(stream)
             n == IF LegitimateStatus(b) THEN 1 + DataLen(b)
                  ELSE IF b \in DefinedRealtime THEN 1
                  ELSE IF b < \H80 /\ voice # None THEN DataLen(voice[1])
                  ELSE 0
         IN  IF n = 0 \/ ~DataRun(stream, IF b < \H80 THEN 1 ELSE 2,
                                   IF b < \H80 THEN n ELSE n - 1)
             THEN <<Err("Invalid")>>
             ELSE LET bytes == SubSeq(stream, 1, n)
                      rest == SubSeq(stream, n + 1, Len(stream))
                  IN  IF b < \H80
                      THEN <<OkSome("RunningStatus", bytes)>> \o Messages(rest, voice)
                      ELSE IF b \in DefinedRealtime
                      THEN <<OkSome("SystemRealtime", bytes)>> \o Messages(rest, voice)
                      ELSE <<Classified(bytes)>>
                           \o Messages(rest, IF b <= \HEF THEN Some(b) ELSE voice)

\* The bytes fed so far
FedBytes == [i \in 1 .. Len(log) |-> log[i].byte]

\* The values other than Ok(None) returned so far
Returned ==
    LET some == SelectSeq(log, LAMBDA c : c.op = "feed_byte" /\ c.result.tag # "None")
    IN  [i \in 1 .. Len(some) |-> some[i].result]

\* Only feed_byte was called, and no byte came after the timeout
FedInTime == \A i \in 1 .. Len(log) : log[i].op = "feed_byte" /\ ~log[i].late

\* C16: when the bytes fed to a new parser, with no timeout, are the
\* concatenation of valid messages (Voice, SystemCommon, SystemRealtime, and
\* running-status data groups as long as the data length of the preceding Voice
\* status), the messages the parser has returned are exactly these messages,
\* byte for byte.
C16_RoundTrip ==
    LET built == Messages(FedBytes, None)
    IN  (FedInTime /\ \A i \in 1 .. Len(built) : built[i].tag = "Some")
          => Returned = built

\* C17: after feed_byte returns a Voice message whose status takes two data
\* bytes, the next two data bytes, fed with no status byte between them and no
\* timeout, are returned as exactly one RunningStatus message holding these two
\* data bytes and no status byte: nothing on the first, the message on the second.
C17_RunningStatusOmission ==
    \A k \in 1 .. Len(log) - 2 :
        (/\ log[k].op = "feed_byte"
         /\ log[k].result.tag = "Some"
         /\ log[k].result.variant = "Voice"
         /\ DataLen(log[k].result.bytes[1]) = 2
         /\ FeedsData(log[k + 1])
         /\ FeedsData(log[k + 2]))
          => /\ log[k + 1].result = OkNone
             /\ log[k + 2].result =
                    OkSome("RunningStatus", <<log[k + 1].byte, log[k + 2].byte>>)

\* C17 witness: Note On 0x90 0x3C 0x40 was returned as a Voice message and the
\* data bytes 0x40 0x3C that followed as one RunningStatus message.
C17_Witness ==
    /\ FedBytes = <<\H90, \H3C, \H40, \H40, \H3C>>
    /\ FedInTime
    /\ log[3].result = OkSome("Voice", <<\H90, \H3C, \H40>>)
    /\ log[5].result = OkSome("RunningStatus", <<\H40, \H3C>>)

\* The parser's heapless vectors are within their capacities, so that the
\* unwrap() calls of from_status_and_data cannot fail
WithinCapacity(p) ==
    /\ Len(p.status) <= 1
    /\ Len(p.data) <= 2
    /\ p.state \in {"Reading", "Resyncing", "InSysEx"}

\* A value feed_byte can return: Ok(None), Ok(Some(message)) with a message of
\* one to three bytes, or Err(fault)
Returnable(r) ==
    \/ r = OkNone
    \/ /\ r.tag = "Some"
       /\ r.variant \in {"Voice", "SystemCommon", "SystemRealtime", "RunningStatus"}
       /\ Len(r.bytes) \in 1 .. 3
    \/ /\ r.tag = "Err"
       /\ r.variant \in {"UnknownStatus", "DuplicateStatus", "UnexpectedDataByte",
                         "InvalidStatusByte"}

\* An event write_uart has a match arm for
Handleable(m) ==
    \/ m.type = "Control" /\ m.variant = "InvalidateRunningStatus"
    \/ m.type = "Midi" /\ Returnable(OkSome(m.variant, m.bytes))

\* C18: no input terminates the system.  After any bytes, transport faults and
\* sink write failures, each parser is within its capacities and returns, for any
\* further byte, a message, nothing or a fault value; every event on its way is
\* one write_uart handles; each reader is in its loop, sending its event as soon
\* as the channel has room or else taking the next byte or transport fault; and
\* write_uart handles the next event whenever there is one.
C18_NeverTerminates ==
    /\ \A s \in UartChannel :
          /\ WithinCapacity(parser[s])
          /\ \A byte \in InputBytes \cup ParserBytes, elapsed \in ElapsedMs :
                LET r == feed_byte(parser[s], byte, elapsed)
                IN  Returnable(r.result) /\ WithinCapacity(r.parser)
          /\ pending[s] # None => Handleable(pending[s][1])
          /\ (pending[s] # None /\ HasRoom(chan)) => ENABLED Send(s)
          /\ (pending[s] = None /\ budget > 0)
                => /\ ENABLED (ReadMore(s) \/ ReadOk(s) \/ ReadMessageError(s))
                   /\ ENABLED ReadUartError(s)
    /\ \A i \in 1 .. Len(chan) : Handleable(chan[i])
    /\ chan # <<>> => ENABLED WriteUart

\* C18 witness: after a protocol fault on source Zero, a transport fault on
\* source One and a failed write, both readers are back at read() and write_uart
\* has handled an event after the failure.
C18_Witness ==
    /\ faults["Zero"].message >= 1
    /\ faults["One"].uart >= 1
    /\ sink_failed
    /\ pending = [s \in UartChannel |-> None]
    /\ handled # None
    /\ handled[1].type = "Control"
    /\ chan = <<>>

\* C19: reset() from any parser state yields Resyncing with empty status and data
\* accumulators and no last-byte time, and consumes no byte; on a parser that is
\* already Resyncing it changes nothing, and a second reset() changes nothing.
C19_ResetIdempotent ==
    [][\A c \in Called :
        c.op = "reset"
          => /\ Resynced(parser'["Zero"])
             /\ SelectSeq(log', LAMBDA d : d.op = "feed_byte")
                  = SelectSeq(log, LAMBDA d : d.op = "feed_byte")
             /\ parser["Zero"].state = "Resyncing" => parser' = parser
             /\ reset(parser'["Zero"]) = parser'["Zero"]]_vars

\* C19 witness: reset() was called with a Note On half accumulated, and again on
\* the Resyncing parser.
C19_Witness ==
    /\ Len(log) = 4
    /\ log[1].byte = \H90
    /\ log[2].byte = \H3C
    /\ log[2].result = OkNone
    /\ log[3].op = "reset"
    /\ log[4].op = "reset"
    /\ Resynced(parser["Zero"])

\* The positions of the log before k at which a Voice message was returned
VoicesBefore(k) ==
    {j \in 1 .. k - 1 : log[j].result.tag = "Some" /\ log[j].result.variant = "Voice"}

\* The largest element of a non-empty set of numbers
Last(S) == CHOOSE j \in S : \A i \in S : i <= j

\* C20: every RunningStatus message a parser returns holds no status byte and
\* exactly as many data bytes as the status of the most recent Voice message it
\* returned takes: one after Program Change or Channel Pressure, two otherwise.
C20_RunningStatusLength ==
    \A k \in 1 .. Len(log) :
        (log[k].result.tag = "Some" /\ log[k].result.variant = "RunningStatus")
          => /\ \A i \in 1 .. Len(log[k].result.bytes) : log[k].result.bytes[i] < \H80
             /\ VoicesBefore(k) # {}
                  => Len(log[k].result.bytes)
                       = DataLen(log[Last(VoicesBefore(k))].result.bytes[1])

\* The messages returned so far
Emitted == {log[k].result : k \in {i \in 1 .. Len(log) : log[i].result.tag = "Some"}}

\* C21: every Voice or SystemCommon message a parser returns is its status byte
\* followed by exactly data_len(status) data bytes with the top bit clear (1 for
\* 0xCx, 0xDx, 0xF1, 0xF3; 0 for 0xF6; 2 otherwise), and every SystemRealtime
\* message is exactly one byte.
C21_MessageLength ==
    \A m \in Emitted :
        /\ m.variant \in {"Voice", "SystemCommon"}
             => /\ LegitimateStatus(m.bytes[1])
                /\ Len(m.bytes) = 1 + DataLen(m.bytes[1])
                /\ \A i \in 2 .. Len(m.bytes) : m.bytes[i] < \H80
        /\ m.variant = "SystemRealtime" => Len(m.bytes) = 1

\* C21 witness: a Program Change with one data byte, a Tune Request with none
\* and an MTC Quarter Frame with one have been returned.
C21_Witness ==
    /\ FedBytes = <<\HC0, \H3C, \HF6, \HF1, \H40>>
    /\ Emitted = {OkSome("Voice", <<\HC0, \H3C>>), OkSome("SystemCommon", <<\HF6>>),
                  OkSome("SystemCommon", <<\HF1, \H40>>)}

\* The step feeds a byte below 0xF8, in time, to a parser in the given state
Feeds(c, state) ==
    /\ c.op = "feed_byte"
    /\ ~c.late
    /\ c.byte < \HF8
    /\ parser["Zero"].state = state

\* C22: in Resyncing with no timeout, a byte with the top bit clear and an
\* undefined status byte (0xF4, 0xF5) are discarded without a fault and leave the
\* parser in Resyncing with empty accumulators; a defined status byte below 0xF8
\* is processed exactly as a freshly cleared parser in Reading processes it.
C22_Resyncing ==
    [][\A c \in Called :
        Feeds(c, "Resyncing")
          => IF c.byte < \H80 \/ c.byte \in {\HF4, \HF5}
             THEN /\ c.result = OkNone
                  /\ Resynced(parser'["Zero"])
                  /\ parser' = parser
             ELSE LET fresh == feed_byte(clear(parser["Zero"]), c.byte, 0)
                  IN  /\ c.result = fresh.result
                      /\ parser'["Zero"] = fresh.parser
                      /\ parser'["Zero"].state # "Resyncing"]_vars

\* C22 witness: after reset() a data byte and 0xF4 were discarded, then Program
\* Change ended the resync and was returned with its data byte.
C22_Witness ==
    /\ Len(log) = 5
    /\ log[1].op = "reset"
    /\ [i \in 1 .. 4 |-> log[i + 1].byte] = <<\H3C, \HF4, \HC0, \H40>>
    /\ log[3].result = OkNone
    /\ log[5].result = OkSome("Voice", <<\HC0, \H40>>)

\* C23: in Reading, feed_byte with an undefined status byte (0xF4, 0xF5) returns
\* the InvalidStatusByte fault, and with a legitimate status byte (not 0xF0 or
\* 0xF7) while a status byte is staged the DuplicateStatus fault; in both cases
\* the accumulators are cleared and the parser is in Resyncing afterwards.
C23_StatusFaults ==
    [][\A c \in Called :
        Feeds(c, "Reading")
          => /\ c.byte \in {\HF4, \HF5}
                  => /\ c.result = Err("InvalidStatusByte")
                     /\ Resynced(parser'["Zero"])
             /\ (LegitimateStatus(c.byte) /\ parser["Zero"].status # <<>>)
                  => /\ c.result = Err("DuplicateStatus")
                     /\ Resynced(parser'["Zero"])]_vars

\* C23 witness: Program Change behind a staged Note On returned DuplicateStatus,
\* and 0xF4 behind the next Note On returned InvalidStatusByte.
C23_Witness ==
    /\ FedBytes = <<\H90, \HC0, \H90, \HF4>>
    /\ FedInTime
    /\ log[2].result = Err("DuplicateStatus")
    /\ log[4].result = Err("InvalidStatusByte")
    /\ Resynced(parser["Zero"])

\* C24: in Reading the accumulated data bytes never exceed the expected data
\* length of the staged status, and a data byte that would make them exceed it is
\* answered with UnexpectedDataByte, cleared accumulators and Resyncing.
C24_DataWithinExpected ==
    /\ [](LET p == parser["Zero"]
          IN  (p.state = "Reading" /\ p.status # <<>>)
                => Len(p.data) <= p.expected_data_bytes)
    /\ [][\A c \in Called :
            (/\ Feeds(c, "Reading")
             /\ c.byte < \H80
             /\ Len(parser["Zero"].data) + 1 > parser["Zero"].expected_data_bytes)
              => /\ c.result = Err("UnexpectedDataByte")
                 /\ Resynced(parser'["Zero"])]_vars

\* The positions up to k of the calls that found the timeout exceeded
LateUpTo(k) == {j \in 1 .. k : log[j].late}

\* The number of bytes below 0xF8 fed by the calls from..to
Accepted(from, to) ==
    Cardinality({i \in from .. to : log[i].op = "feed_byte" /\ log[i].byte < \HF8})

C26_UndefinedRealtime ==
    [][\A c \in Called :
        (c.op = "feed_byte" /\ c.byte \in {\HF9, \HFD})
          => /\ c.result = Err("InvalidStatusByte")
             /\ parser'["Zero"].status = parser["Zero"].status
             /\ parser'["Zero"].data = parser["Zero"].data
             /\ parser'["Zero"].last_byte_time = parser["Zero"].last_byte_time]_vars

\* The class of a message by its staged status
ClassOf(staged) ==
    IF staged = <<>> THEN "RunningStatus"
    ELSE IF staged[1] >= \HF8 THEN "SystemRealtime"
    ELSE IF staged[1] >= \H80 /\ staged[1] <= \HEF THEN "Voice"
    ELSE IF staged[1] \in {\HF1, \HF2, \HF3, \HF6} THEN "SystemCommon"
    ELSE "UnknownStatus"

\* C27: feed_byte never returns the UnknownStatus fault, and every message it
\* returns is classified by the status staged for it (the byte itself if it is a
\* status byte, else the status staged before): RunningStatus iff none is
\* staged, SystemRealtime iff it is in 0xF8..0xFF, Voice iff in 0x80..0xEF,
\* SystemCommon iff one of 0xF1, 0xF2, 0xF3, 0xF6; a staged status heads the
\* message.
C27_Classification ==
    [][\A c \in Called :
        c.op = "feed_byte"
          => /\ c.result # Err("UnknownStatus")
             /\ c.result.tag = "Some"
                  => LET staged == IF c.byte >= \H80 THEN <<c.byte>>
                                   ELSE parser["Zero"].status
                     IN  /\ c.result.variant = ClassOf(staged)
                         /\ SubSeq(c.result.bytes, 1, Len(staged)) = staged
                         /\ (staged = <<>>) = (\A i \in 1 .. Len(c.result.bytes) :
                                                  c.result.bytes[i] < \H80)]_vars

\* C27 witness: a RunningStatus, a Voice and a SystemCommon message have been
\* returned, each classified by its status.
C27_Witness ==
    /\ FedBytes = <<\H3C, \H40, \HC0, \H3C, \HF6>>
    /\ Returned = <<OkSome("RunningStatus", <<\H3C, \H40>>),
                    OkSome("Voice", <<\HC0, \H3C>>),
                    OkSome("SystemCommon", <<\HF6>>)>>

\* C28: the bytes of an exclusive-data block are never forwarded.  0xF0 fed to a
\* parser outside InSysEx drops any partly accumulated message without a fault
\* and enters InSysEx; while the parser is in InSysEx no call returns a Voice,
\* SystemCommon or RunningStatus message.
C28_SysExDiscarded ==
    [][\A c \in Called :
        c.op = "feed_byte"
          => /\ (c.byte = \HF0 /\ parser["Zero"].state # "InSysEx")
                  => /\ c.result = OkNone
                     /\ parser'["Zero"] = [MidiParserDefault EXCEPT !.state = "InSysEx"]
             /\ (parser["Zero"].state = "InSysEx" /\ c.result.tag = "Some")
                  => /\ c.result = OkSome("SystemRealtime", <<c.byte>>)
                     /\ parser' = parser]_vars

\* C28 witness: 0xF0 arrived with a Note On half accumulated; the Program Change
\* bytes fed inside the block returned nothing.
C28_Witness ==
    /\ FedBytes = <<\H90, \H3C, \HF0, \HC0, \H40>>
    /\ Returned = <<>>
    /\ parser["Zero"] = [MidiParserDefault EXCEPT !.state = "InSysEx"]

\* The bytes below 0xF8 fed by the first k calls, in order
AcceptedBytes(k) ==
    LET fed == SelectSeq(SubSeq(log, 1, k),
                         LAMBDA c : c.op = "feed_byte" /\ c.byte < \HF8)
    IN  [i \in 1 .. Len(fed) |-> fed[i].byte]

\* C29: every Voice or SystemCommon message a parser returns holds only data
\* bytes fed after its status byte: the message is the status byte and the data
\* bytes fed behind it, the last bytes fed (realtime bytes aside) when it is
\* returned; no data byte accepted before the status byte is part of it.
C29_DataAfterStatus ==
    \A k \in 1 .. Len(log) :
        (log[k].result.tag = "Some" /\ log[k].result.variant \in {"Voice", "SystemCommon"})
          => LET m == log[k].result.bytes
                 fed == AcceptedBytes(k)
             IN  /\ Len(fed) >= Len(m)
                 /\ SubSeq(fed, Len(fed) - Len(m) + 1, Len(fed)) = m

\* C30: in every state of write_uart, if last_tx_from is source S then S has a
\* cached status byte.
C30_LastTxHasStatus ==
    \A s \in UartChannel :
        uart_status.last_tx_from = Some(s) => CacheOf(uart_status, s) # None

\* The bytes the step appends to the output, if the step appends to it
Appended ==
    IF Len(out') >= Len(out) /\ SubSeq(out', 1, Len(out)) = out
    THEN {SubSeq(out', Len(out) + 1, Len(out'))}
    ELSE {}

\* The byte groups a channel message may occupy in the output: nothing (a dropped
\* message), its bytes, or its bytes behind one injected Voice status byte
Groups(message) ==
    {<<>>, message.bytes} \cup {<<b>> \o message.bytes : b \in \H80 .. \HEF}

\* C31: with the sink writes succeeding, the output grows only when write_uart
\* handles a Midi message, and then by one contiguous group: an optional injected
\* status byte followed by the message's bytes, placed behind everything written
\* before; the messages of a source are written in the order its reader emitted
\* them (the sequence number of the one written exceeds those written before).
C31_WholeMessages ==
    [][IF Handles("Midi", {"Voice", "RunningStatus", "SystemCommon", "SystemRealtime"})
       THEN WritesSucceed
              => LET m == Head(chan)
                 IN  /\ Appended \subseteq Groups(m)
                     /\ Appended # {}
                     /\ m.seq > seen[m.uart_channel].seq
                     /\ m.seq <= produced[m.uart_channel]
       ELSE out' = out]_vars

\* C31 witness: a Voice message of source One, a Tune Request of source Zero, then
\* a RunningStatus message of source One are in the output as three whole groups,
\* the last one behind One's injected status.
C31_Witness ==
    /\ ~sink_failed
    /\ out = <<\HD0, \H3C>> \o <<\HF6>> \o <<\HD0, \H3C, \H3C>>
    /\ seen["One"].seq = 2
    /\ seen["Zero"].seq = 1
    /\ handled # None
    /\ handled[1].variant = "RunningStatus"
    /\ handled[1].uart_channel = "One"

\* feed_byte applied to each byte of `bytes` in turn, whatever it returns: the
\* parser after each call with the call's result; only the first byte can be late
RECURSIVE FeedEach(_, _, _)
FeedEach(p, bytes, elapsed) ==
    IF bytes = <<>> THEN <<>>
    ELSE LET r == feed_byte(p, Head(bytes), elapsed)
         IN  <<r>> \o FeedEach(r.parser, Tail(bytes), 0)

\* The reader of source Zero takes a step of MidiUart::read in which fill_buf()
\* succeeds: no channel traffic and no transport fault in the step
Reads ==
    /\ pending["Zero"] = None
    /\ chan' = chan
    /\ faults'["Zero"].uart = faults["Zero"].uart
    /\ vars' # vars

\* What read_from_uart does with the result of a read that left the parser as p
Returns(result, p) ==
    CASE result.tag = "None" ->
             /\ parser'["Zero"] = p
             /\ pending'["Zero"] = None
      [] result.tag = "Some" ->
             /\ parser'["Zero"] = p
             /\ pending'["Zero"] # None
             /\ pending'["Zero"][1].type = "Midi"
             /\ pending'["Zero"][1].variant = result.variant
             /\ pending'["Zero"][1].bytes = result.bytes
      [] OTHER ->
             /\ parser'["Zero"] = reset(p)
             /\ pending'["Zero"] # None
             /\ pending'["Zero"][1].type = "Control"

\* C32: whatever batches the bytes arrive in, a read feeds the bytes left from the
\* earlier batches first and the fresh ones behind them, each once and in order,
\* up to the first byte on which the parser returns a message or a fault, or to
\* the end of the buffer; exactly the fed bytes are consumed, the others stay
\* buffered in arrival order.
C32_FedOnceInOrder ==
    [][Reads
        => \E batch \in Batches(MaxBatch), elapsed \in Elapsed(parser["Zero"]) :
             LET buf == rx["Zero"] \o batch
                 each == FeedEach(parser["Zero"], buf, elapsed)
             IN  /\ Len(batch) = budget - budget'
                 /\ \E n \in 1 .. Len(buf) :
                      /\ \A i \in 1 .. (n - 1) : each[i].result.tag = "None"
                      /\ n < Len(buf) => each[n].result.tag # "None"
                      /\ Returns(each[n].result, each[n].parser)
                      /\ rx'["Zero"] = SubSeq(buf, n + 1, Len(buf))]_vars

\* C32 witness: the batch <<0xF8, 0xC0>> ended a read on its first byte and kept
\* the second; the next read fed the kept 0xC0 before the fresh <<0x3C, 0x3C>>,
\* returned the Voice message on the first 0x3C and kept the second.
C32_Witness ==
    /\ out = <<\HF8>>
    /\ seen["Zero"].seq = 1
    /\ produced["Zero"] = 2
    /\ pending["Zero"] # None
    /\ pending["Zero"][1].variant = "Voice"
    /\ pending["Zero"][1].bytes = <<\HC0, \H3C>>
    /\ rx["Zero"] = <<\H3C>>
    /\ budget = MaxSolo - 4
    /\ timeouts["Zero"] = 0

====
